---------------------------- MODULE Spec2Model ----------------------------
(***************************************************************************)
(* A model of metric-rs: the planar geometry calculus of src/src/calc      *)
(* (points, lines, circles; intersection, construction, transforms).       *)
(*                                                                         *)
(* The library is a set of pure functions.  Each specification below draws *)
(* the arguments of a group of functions in its initial states and has one *)
(* action per library call, which stores the value the call returns.       *)
(*                                                                         *)
(* Numbers.  An f64 is modelled exactly, as an element of Q(sqrt k)        *)
(* extended by the three IEEE special values: the tuple <<n, m, d, k>>     *)
(* stands for (n + m*sqrt(k)) / d, with d > 0, gcd(n, m, d) = 1, k         *)
(* squarefree, and k = 1 when m = 0.  d = 0 marks a special value:         *)
(* <<0,0,0,1>> is NaN, <<1,0,0,1>> is +inf and <<-1,0,0,1>> is -inf.       *)
(* Rounding is not modelled (the operations are exact), and neither is the *)
(* sign of zero: a zero divisor is taken to be +0.0, which is what x - x   *)
(* yields.  An operation that would mix two different radicals has no      *)
(* value in this representation and stops the model checker.               *)
(***************************************************************************)
EXTENDS Integers, Sequences, FiniteSets, TLC

-----------------------------------------------------------------------------
(* Bounds of the argument sets. *)

\* Line coefficients a, b, c, scaling ratios and inversion powers range
\* over -MaxCoeff .. MaxCoeff.
MaxCoeff == 1
\* Point coordinates range over -MaxCoord .. MaxCoord.
MaxCoord == 2
\* Circle radii range over 1 .. MaxRadius.
MaxRadius == 2

-----------------------------------------------------------------------------
(* f64 arithmetic. *)

IAbs(i) == IF i < 0 THEN -i ELSE i

ISign(i) == IF i < 0 THEN -1 ELSE IF i > 0 THEN 1 ELSE 0

RECURSIVE Gcd(_, _)
Gcd(i, j) == IF j = 0 THEN IAbs(i) ELSE Gcd(j, i % IAbs(j))

NaN == <<0, 0, 0, 1>>

PInf == <<1, 0, 0, 1>>

NInf == <<-1, 0, 0, 1>>

IsNaN(x) == x[3] = 0 /\ x[1] = 0

IsInf(x) == x[3] = 0 /\ x[1] # 0

IsFinite(x) == x[3] # 0

\* The normal form of (n + m*sqrt(k)) / d, for d # 0.
Norm(n, m, d, k) ==
    LET g == Gcd(Gcd(n, m), d)
        s == IF d < 0 THEN -g ELSE g
    IN  <<n \div s, m \div s, d \div s, IF m = 0 THEN 1 ELSE k>>

\* The integer i, and the fraction i / j (j # 0), as f64 values.
F(i) == <<i, 0, 1, 1>>

Frac(i, j) == Norm(i, 0, j, 1)

\* The radical shared by two finite values; none when they differ.
Rad(x, y) ==
    IF x[2] = 0 THEN y[4]
    ELSE IF y[2] = 0 \/ y[4] = x[4] THEN x[4]
    ELSE CHOOSE k \in {} : TRUE

\* -1, 0 or 1: the sign of a value that is not NaN.
Sign(x) ==
    IF x[3] = 0 THEN x[1]
    ELSE IF ISign(x[1]) * ISign(x[2]) >= 0 THEN ISign(ISign(x[1]) + ISign(x[2]))
         ELSE IF x[1] * x[1] > x[2] * x[2] * x[4] THEN ISign(x[1]) ELSE ISign(x[2])

FNeg(x) == <<-x[1], -x[2], x[3], x[4]>>

FAdd(x, y) ==
    IF IsNaN(x) \/ IsNaN(y) THEN NaN
    ELSE IF IsInf(x) /\ IsInf(y) THEN (IF x = y THEN x ELSE NaN)
    ELSE IF IsInf(x) THEN x
    ELSE IF IsInf(y) THEN y
    ELSE Norm(x[1] * y[3] + y[1] * x[3], x[2] * y[3] + y[2] * x[3],
              x[3] * y[3], Rad(x, y))

FSub(x, y) == FAdd(x, FNeg(y))

FMul(x, y) ==
    IF IsNaN(x) \/ IsNaN(y) THEN NaN
    ELSE IF IsInf(x) \/ IsInf(y)
         THEN (IF Sign(x) * Sign(y) = 0 THEN NaN
               ELSE IF Sign(x) * Sign(y) > 0 THEN PInf ELSE NInf)
    ELSE LET k == Rad(x, y)
         IN  Norm(x[1] * y[1] + x[2] * y[2] * k, x[1] * y[2] + x[2] * y[1],
                  x[3] * y[3], k)

FDiv(x, y) ==
    IF IsNaN(x) \/ IsNaN(y) THEN NaN
    ELSE IF IsInf(x) THEN (IF IsInf(y) THEN NaN
                           ELSE IF Sign(y) < 0 THEN FNeg(x) ELSE x)
    ELSE IF IsInf(y) THEN F(0)
    ELSE IF Sign(y) = 0
         THEN (IF Sign(x) = 0 THEN NaN ELSE IF Sign(x) > 0 THEN PInf ELSE NInf)
    ELSE LET k == Rad(x, y)
         IN  Norm((x[1] * y[1] - x[2] * y[2] * k) * y[3],
                  (x[2] * y[1] - x[1] * y[2]) * y[3],
                  x[3] * (y[1] * y[1] - y[2] * y[2] * k), k)

FAbs(x) == IF ~IsNaN(x) /\ Sign(x) < 0 THEN FNeg(x) ELSE x

\* IEEE comparisons: every comparison with NaN is false.
FEq(x, y) == ~IsNaN(x) /\ ~IsNaN(y) /\ x = y

FLt(x, y) ==
    /\ ~IsNaN(x) /\ ~IsNaN(y)
    /\ x # y
    /\ IF IsInf(x) THEN Sign(x) < 0
       ELSE IF IsInf(y) THEN Sign(y) > 0
       ELSE Sign(FSub(x, y)) < 0

FLe(x, y) == FEq(x, y) \/ FLt(x, y)

\* The integer square root of n >= 1, by Newton's iteration from x >= sqrt(n).
RECURSIVE ISqrtIter(_, _)
ISqrtIter(n, x) ==
    LET y == (x + n \div x) \div 2
    IN  IF y >= x THEN x ELSE ISqrtIter(n, y)

\* The largest s with s * s dividing n, for n >= 1 with no prime factor
\* below i.  Once i^3 > n, n is 1, a prime, a prime squared or a product of
\* two distinct primes.
RECURSIVE SquarePart(_, _)
SquarePart(n, i) ==
    IF i * i > n \div i
    THEN LET r == ISqrtIter(n, n) IN IF r * r = n THEN r ELSE 1
    ELSE IF n % (i * i) = 0 THEN i * SquarePart(n \div (i * i), i)
    ELSE IF n % i = 0 THEN SquarePart(n \div i, i + 1)
    ELSE SquarePart(n, i + 1)

\* f64::sqrt.  sqrt(n/d) = sqrt(n*d)/d = s*sqrt(k)/d with n*d = s*s*k.
FSqrt(x) ==
    IF IsNaN(x) \/ Sign(x) < 0 THEN NaN
    ELSE IF IsInf(x) \/ Sign(x) = 0 THEN x
    ELSE IF x[2] # 0 THEN CHOOSE k \in {} : TRUE
    ELSE LET n == x[1] * x[3]
             s == SquarePart(n, 2)
             k == n \div (s * s)
         IN  IF k = 1 THEN Norm(s, 0, x[3], 1) ELSE Norm(0, s, x[3], k)

-----------------------------------------------------------------------------
(* src/src/objects.rs: the value types and the vector algebra of Point. *)

Point(x, y) == [x |-> x, y |-> y]

Line(a, b, c) == [a |-> a, b |-> b, c |-> c]

Circle(O, r) == [O |-> O, r |-> r]

Point_add(P, Q) == Point(FAdd(P.x, Q.x), FAdd(P.y, Q.y))

Point_sub(P, Q) == Point(FSub(P.x, Q.x), FSub(P.y, Q.y))

Point_mul(P, rhs) == Point(FMul(P.x, rhs), FMul(P.y, rhs))

Point_div(P, rhs) == Point(FDiv(P.x, rhs), FDiv(P.y, rhs))

-----------------------------------------------------------------------------
(* src/src/calc/exception.rs: Result<T, CalcException>. *)

Ok(v) == [ok |-> TRUE, val |-> v]

Err(e) == [ok |-> FALSE, err |-> e]

-----------------------------------------------------------------------------
(* src/src/calc/constants.rs and the predicates of src/src/calc/basic.rs. *)

\* EPSILON = 1e-10 = 1 / (EpsRoot * EpsRoot); 10^10 itself exceeds the
\* integers of the model checker.
EpsRoot == 100000

\* z < EPSILON, for z >= 0.  A rational n/d is below 1/EpsRoot^2 iff
\* n * EpsRoot^2 < d.  An irrational (n + m*sqrt(k))/d is at least
\* 1 / (d * (|n| + |m|*k)), which decides the comparison when that
\* denominator is below EpsRoot^2; no other case has a value here.
LtEpsilon(z) ==
    IF IsInf(z) THEN FALSE
    ELSE IF z[2] = 0 THEN z[1] <= ((z[3] - 1) \div EpsRoot) \div EpsRoot
    ELSE LET den == z[3] * (IAbs(z[1]) + IAbs(z[2]) * z[4])
         IN  IF den \div EpsRoot < EpsRoot THEN FALSE
             ELSE CHOOSE k \in {} : TRUE

aprx_eq(a, b) ==
    LET z == FAbs(FSub(a, b)) IN ~IsNaN(z) /\ LtEpsilon(z)

is_parallel(l, k) == aprx_eq(FMul(l.a, k.b), FMul(l.b, k.a))

Point_eq(P, Q) == aprx_eq(P.x, Q.x) /\ aprx_eq(P.y, Q.y)

Line_eq(l, k) == is_parallel(l, k) /\ aprx_eq(l.c, k.c)

Point_distance_sq(P, Q) ==
    LET dx == FSub(P.x, Q.x)
        dy == FSub(P.y, Q.y)
    IN  FAdd(FMul(dx, dx), FMul(dy, dy))

Point_distance(P, Q) == FSqrt(Point_distance_sq(P, Q))

Circle_eq(c, d) == Point_eq(c.O, d.O) /\ aprx_eq(c.r, d.r)

Line_is_through(l, P) ==
    aprx_eq(FAdd(FAdd(FMul(l.a, P.x), FMul(l.b, P.y)), l.c), F(0))

Circle_is_through(c, P) ==
    aprx_eq(FMul(c.r, c.r), Point_distance_sq(c.O, P))

-----------------------------------------------------------------------------
(* src/src/calc/basic.rs: constructors. *)

Line_from_coeff(a, b, c) ==
    IF FEq(a, F(0)) /\ FEq(b, F(0)) THEN Err("ZeroCoefficient")
    ELSE Ok(Line(a, b, c))

Line_from_slope_and_point(a, b, P) ==
    Line(a, b, FSub(FMul(FNeg(a), P.x), FMul(b, P.y)))

Line_from_2p(A, B) ==
    IF Point_eq(A, B) THEN Err("OverlappingPoint")
    ELSE Ok(Line(FSub(A.y, B.y), FSub(B.x, A.x),
                 FSub(FMul(A.x, B.y), FMul(A.y, B.x))))

Circle_from_center_radius(O, R) ==
    IF FLe(R, F(0)) THEN Err("NonpositiveRadius") ELSE Ok(Circle(O, R))

Circle_from_center_point(O, A) ==
    IF Point_eq(O, A) THEN Err("OverlappingPoint")
    ELSE Ok(Circle(O, Point_distance(O, A)))

-----------------------------------------------------------------------------
(* src/src/calc/basic.rs: the intersection engine. *)

\* Line::inter(Line) with the two numerators of Cramer's rule exchanged.
Line_inter_Line_swapped(l, obj) ==
    IF is_parallel(l, obj) THEN Err("NoIntersection")
    ELSE LET a == FSub(FMul(l.b, obj.c), FMul(obj.b, l.c))
             b == FSub(FMul(l.c, obj.a), FMul(obj.c, l.a))
             d == FSub(FMul(l.a, obj.b), FMul(obj.a, l.b))
         IN  Ok(Point(FDiv(b, d), FDiv(a, d)))

Line_inter_Line(l, obj) ==
    IF is_parallel(l, obj) THEN Err("NoIntersection")
    ELSE LET a == FSub(FMul(l.b, obj.c), FMul(obj.b, l.c))
             b == FSub(FMul(l.c, obj.a), FMul(obj.c, l.a))
             d == FSub(FMul(l.a, obj.b), FMul(obj.a, l.b))
         IN  Ok(Point(FDiv(a, d), FDiv(b, d)))

Line_inter_common_Line(l, obj, common) == Ok(common)

\* t is the term each branch squares in its constant coefficient:
\* a * O.x + c when a != 0.0, b * O.x + c otherwise.
Line_inter_Circle(l, obj) ==
    LET O == obj.O
        r == obj.r
        a == l.a
        b == l.b
        c == l.c
        aa == FMul(a, a)
        bb == FMul(b, b)
    IN  IF ~FEq(a, F(0))
        THEN LET t  == FAdd(FMul(a, O.x), c)
                 ya == FAdd(aa, bb)
                 yb == FMul(F(2), FSub(FMul(t, b), FMul(aa, O.y)))
                 yc == FAdd(FMul(aa, FSub(FMul(O.y, O.y), FMul(r, r))),
                            FMul(t, t))
                 disc == FSub(FMul(yb, yb), FMul(FMul(F(4), ya), yc))
                 sq == FSqrt(disc)
                 y1 == FDiv(FDiv(FAdd(FNeg(yb), sq), ya), F(2))
                 y2 == FDiv(FDiv(FSub(FNeg(yb), sq), ya), F(2))
             IN  IF FLt(disc, F(0)) THEN Err("NoIntersection")
                 ELSE Ok(<<Point(FDiv(FNeg(FAdd(FMul(b, y1), c)), a), y1),
                           Point(FDiv(FNeg(FAdd(FMul(b, y2), c)), a), y2)>>)
        ELSE LET t  == FAdd(FMul(b, O.x), c)
                 xa == bb
                 xb == FMul(FMul(FMul(F(-2), b), b), O.x)
                 xc == FAdd(FMul(bb, FSub(FMul(O.x, O.x), FMul(r, r))),
                            FMul(t, t))
                 disc == FSub(FMul(xb, xb), FMul(FMul(F(4), xa), xc))
                 sq == FSqrt(disc)
                 x1 == FDiv(FDiv(FAdd(FNeg(xb), sq), xa), F(2))
                 x2 == FDiv(FDiv(FSub(FNeg(xb), sq), xa), F(2))
             IN  IF FLt(disc, F(0)) THEN Err("NoIntersection")
                 ELSE Ok(<<Point(x1, FDiv(FNeg(c), b)),
                           Point(x2, FDiv(FNeg(c), b))>>)

\* Line::inter_common(Circle) with the sum of the roots taken as -yb (-xb),
\* the division by the leading coefficient forgotten.
Line_inter_common_Circle_no_div(l, obj, common) ==
    LET O == obj.O
        a == l.a
        b == l.b
        c == l.c
    IN  IF ~FEq(a, F(0))
        THEN LET yb == FMul(F(2), FSub(FMul(FAdd(FMul(a, O.x), c), b),
                                       FMul(FMul(a, a), O.y)))
                 y2 == FSub(FNeg(yb), common.y)
             IN  Ok(<<Point(FDiv(FNeg(FAdd(FMul(b, y2), c)), a), y2), common>>)
        ELSE LET xb == FMul(FMul(FMul(F(-2), b), b), O.x)
                 x2 == FSub(FNeg(xb), common.x)
             IN  Ok(<<Point(x2, FDiv(FNeg(c), b)), common>>)

Line_inter_common_Circle(l, obj, common) ==
    LET O == obj.O
        a == l.a
        b == l.b
        c == l.c
    IN  IF ~FEq(a, F(0))
        THEN LET ya == FAdd(FMul(a, a), FMul(b, b))
                 yb == FMul(F(2), FSub(FMul(FAdd(FMul(a, O.x), c), b),
                                       FMul(FMul(a, a), O.y)))
                 y2 == FSub(FDiv(FNeg(yb), ya), common.y)
             IN  Ok(<<Point(FDiv(FNeg(FAdd(FMul(b, y2), c)), a), y2), common>>)
        ELSE LET xa == FMul(b, b)
                 xb == FMul(FMul(FMul(F(-2), b), b), O.x)
                 x2 == FSub(FDiv(FNeg(xb), xa), common.x)
             IN  Ok(<<Point(x2, FDiv(FNeg(c), b)), common>>)

Circle_inter_Line(c, obj) == Line_inter_Circle(obj, c)

Circle_inter_common_Line(c, obj, common) ==
    Line_inter_common_Circle(obj, c, common)

radical_axis(c, d) ==
    LET O == c.O
        P == d.O
        d1 == FMul(F(-2), O.x)
        e1 == FMul(F(-2), O.y)
        f1 == FSub(FAdd(FMul(O.x, O.x), FMul(O.y, O.y)), FMul(c.r, c.r))
        d2 == FMul(F(-2), P.x)
        e2 == FMul(F(-2), P.y)
        f2 == FSub(FAdd(FMul(P.x, P.x), FMul(P.y, P.y)), FMul(d.r, d.r))
    IN  Line(FSub(d1, d2), FSub(e1, e2), FSub(f1, f2))

Circle_inter_Circle(c, obj) == Line_inter_Circle(radical_axis(c, obj), obj)

Circle_inter_common_Circle(c, obj, common) ==
    Line_inter_common_Circle(radical_axis(c, obj), obj, common)

-----------------------------------------------------------------------------
(* src/src/calc/construct.rs. *)

midpoint(A, B) == Point_div(Point_add(A, B), F(2))

perp(A, l) ==
    Line(FNeg(l.b), l.a, FSub(FMul(l.b, A.x), FMul(l.a, A.y)))

\* The ? operator returns the error of Line::from_2p.
perp_bisect(A, B) ==
    LET l == Line_from_2p(A, B)
    IN  IF l.ok THEN Ok(perp(midpoint(A, B), l.val)) ELSE l

\* Circle::from_3p with the radius left squared (the sqrt of distance
\* forgotten).
Circle_from_3p_no_sqrt(A, B, C) ==
    LET p == perp_bisect(A, B)
        q == perp_bisect(B, C)
    IN  IF ~p.ok THEN p
        ELSE IF ~q.ok THEN q
        ELSE LET O == Line_inter_Line(p.val, q.val)
             IN  IF ~O.ok THEN O
                 ELSE Ok(Circle(O.val, Point_distance_sq(O.val, A)))

\* src/src/calc/basic.rs, Circle::from_3p: each ? returns the first error.
Circle_from_3p(A, B, C) ==
    LET p == perp_bisect(A, B)
        q == perp_bisect(B, C)
    IN  IF ~p.ok THEN p
        ELSE IF ~q.ok THEN q
        ELSE LET O == Line_inter_Line(p.val, q.val)
             IN  IF ~O.ok THEN O
                 ELSE Ok(Circle(O.val, Point_distance(O.val, A)))

-----------------------------------------------------------------------------
(* src/src/calc/transform.rs. *)

\* Point::reflect_in(Line) with n = a*a - b*b, the sign of n reversed.
Point_reflect_in_Line_neg_n(P, l) ==
    LET a == l.a
        b == l.b
        c == l.c
        m == FAdd(FMul(b, b), FMul(a, a))
        n == FSub(FMul(a, a), FMul(b, b))
    IN  Point(FDiv(FSub(FMul(P.x, n),
                        FMul(FMul(F(2), a), FAdd(FMul(b, P.y), c))), m),
              FDiv(FSub(FMul(FNeg(P.y), n),
                        FMul(FMul(F(2), b), FAdd(FMul(a, P.x), c))), m))

Point_reflect_in_Line(P, l) ==
    LET a == l.a
        b == l.b
        c == l.c
        m == FAdd(FMul(b, b), FMul(a, a))
        n == FSub(FMul(b, b), FMul(a, a))
    IN  Point(FDiv(FSub(FMul(P.x, n),
                        FMul(FMul(F(2), a), FAdd(FMul(b, P.y), c))), m),
              FDiv(FSub(FMul(FNeg(P.y), n),
                        FMul(FMul(F(2), b), FAdd(FMul(a, P.x), c))), m))

\* An angle is a whole number q of quarter turns, q * pi/2, for which
\* f64::sin and f64::cos are taken at their exact values in {-1, 0, 1}.
Sin(q) == F(<<0, 1, 0, -1>>[(q % 4) + 1])

Cos(q) == F(<<1, 0, -1, 0>>[(q % 4) + 1])

Point_rotate(P, O, angle) ==
    LET dx == FSub(P.x, O.x)
        dy == FSub(P.y, O.y)
        s == Sin(angle)
        c == Cos(angle)
    IN  Point(FAdd(FSub(FMul(dx, c), FMul(dy, s)), O.x),
              FAdd(FAdd(FMul(dy, c), FMul(dx, s)), O.y))

Line_rotate(l, O, angle) ==
    LET sin == Sin(angle)
        cos == Cos(angle)
        a0 == FSub(FMul(l.a, cos), FMul(l.b, sin))
        b0 == FAdd(FMul(l.b, cos), FMul(l.a, sin))
        c0 == FAdd(FAdd(FMul(l.a, O.x), FMul(l.b, O.y)), l.c)
    IN  Line(a0, b0, c0)

Circle_rotate(c, O, angle) == Circle(Point_rotate(c.O, O, angle), c.r)

-----------------------------------------------------------------------------
(* src/src/calc/basic.rs: distance to a Line. *)

Point_distance_sq_Line(P, l) ==
    LET z == FAdd(FAdd(FMul(P.x, l.a), FMul(P.y, l.b)), l.c)
    IN  FDiv(FMul(z, z), FAdd(FMul(l.a, l.a), FMul(l.b, l.b)))

Line_distance_sq_Line(self_, l) ==
    IF ~is_parallel(self_, l) THEN F(0)
    ELSE LET z == FSub(self_.c, l.c)
         IN  FDiv(FMul(z, z),
                  FAdd(FMul(self_.a, self_.a), FMul(self_.b, self_.b)))

-----------------------------------------------------------------------------
(* src/src/calc/construct.rs: projection, bisectors, homothety. *)

\* A call of Result::unwrap on an Err aborts the program.
Panic == [panic |-> TRUE]

IsPanic(v) == "panic" \in DOMAIN v

projection(A, l) ==
    LET a == l.a
        b == l.b
        c == l.c
        n == FAdd(FMul(a, a), FMul(b, b))
    IN  Point(FDiv(FSub(FSub(FMul(FMul(b, b), A.x), FMul(a, c)),
                        FMul(FMul(a, b), A.y)), n),
              FDiv(FSub(FSub(FMul(FMul(a, a), A.y), FMul(b, c)),
                        FMul(FMul(a, b), A.x)), n))

angle_bisect(l, k) ==
    LET m == FSqrt(FAdd(FMul(l.a, l.a), FMul(l.b, l.b)))
        n == FSqrt(FAdd(FMul(k.a, k.a), FMul(k.b, k.b)))
        a0 == FDiv(l.a, m)
        b0 == FDiv(l.b, m)
        c0 == FDiv(l.c, m)
        a1 == FDiv(k.a, n)
        b1 == FDiv(k.b, n)
        c1 == FDiv(k.c, n)
    IN  <<Line(FAdd(a0, a1), FAdd(b0, b1), FAdd(c0, c1)),
          Line(FSub(a0, a1), FSub(b0, b1), FSub(c0, c1))>>

\* Each ? returns the error of Line::from_2p.
angle_bisect_3p(A, O, B) ==
    LET l == Line_from_2p(O, A)
        k == Line_from_2p(O, B)
    IN  IF ~l.ok THEN l
        ELSE IF ~k.ok THEN k
        ELSE Ok(angle_bisect(l.val, k.val))

homothety_center(c, d) ==
    IF FEq(c.r, d.r) THEN Err("Infinity")
    ELSE LET r1 == c.r
             r2 == d.r
         IN  Ok(<<Point_div(Point_add(Point_mul(c.O, r2), Point_mul(d.O, r1)),
                            FAdd(r1, r2)),
                  Point_div(Point_sub(Point_mul(d.O, r1), Point_mul(c.O, r2)),
                            FSub(r1, r2))>>)

-----------------------------------------------------------------------------
(* src/src/calc/transform.rs: reflection of a Line, scaling, inversion. *)

Line_reflect_in_Line(self_, l) ==
    IF is_parallel(self_, l)
    THEN Line(self_.a, self_.b, FSub(FMul(F(2), l.c), self_.c))
    ELSE LET a == l.a
             b == l.b
             c == self_.a
             d == self_.b
             a0 == FSub(FAdd(FMul(FMul(a, a), c),
                             FMul(FMul(FMul(F(2), a), b), d)),
                        FMul(FMul(b, b), c))
             b0 == FAdd(FMul(FMul(FMul(F(2), a), b), c),
                        FMul(FSub(FMul(b, b), FMul(a, a)), d))
             P == Line_inter_Line(self_, l)
         IN  IF ~P.ok THEN Panic
             ELSE Line_from_slope_and_point(a0, b0, P.val)

Point_scale(P, O, r) ==
    Point_sub(Point_mul(P, r), Point_mul(O, FSub(r, F(1))))

Line_scale(l, O, r) ==
    Line(l.a, l.b,
         FAdd(FMul(FAdd(FMul(l.a, O.x), FMul(l.b, O.y)), FSub(r, F(1))),
              FMul(l.c, r)))

Circle_scale(c, center, ratio) ==
    Circle(Point_scale(c.O, center, ratio), FMul(c.r, ratio))

Point_invert_in(P, O, p) ==
    IF Point_eq(P, O) THEN Err("OverlappingPoint")
    ELSE LET d == Point_sub(P, O)
             scale == FDiv(p, Point_distance_sq(P, O))
         IN  Ok(Point_add(O, Point_mul(d, scale)))

\* enum LineInverted.
LineInverted_Line(l) == [variant |-> "Line", val |-> l]

LineInverted_Circle(c) == [variant |-> "Circle", val |-> c]

Line_invert_in(l, O, p) ==
    IF Line_is_through(l, O) THEN LineInverted_Line(l)
    ELSE LET t == Point_invert_in(projection(O, l), O, p)
         IN  IF ~t.ok THEN Panic
             ELSE LET o1 == midpoint(t.val, O)
                      c == Circle_from_center_point(o1, O)
                  IN  IF ~c.ok THEN Panic ELSE LineInverted_Circle(c.val)

\* The value of a set of one element.  A set {e(v) : v \in {x}} computes
\* x once, where a LET computes it at every use.
Only(S) == CHOOSE v \in S : TRUE

Circle_invert_in(c, O, p) ==
    IF Circle_is_through(c, O)
    THEN LET i == Point_invert_in(c.O, O, p)
         IN  IF ~i.ok THEN Panic
             ELSE LET m == midpoint(i.val, O)
                      l == Line_from_2p(m, O)
                  IN  IF ~l.ok THEN Panic
                      ELSE LineInverted_Line(perp(m, l.val))
    ELSE LET l == Line_from_2p(O, c.O)
         IN  IF ~l.ok THEN Panic
             ELSE Only({
                 IF ~ab.ok THEN Panic
                 ELSE Only({
                     IF ~a0.ok \/ ~b0.ok THEN Panic
                     ELSE Only({
                         IF ~n.ok THEN Panic ELSE LineInverted_Circle(n.val) :
                         n \in {Circle_from_center_point(
                                    midpoint(a0.val, b0.val), a0.val)}}) :
                     a0 \in {Point_invert_in(ab.val[1], O, p)},
                     b0 \in {Point_invert_in(ab.val[2], O, p)}}) :
                 ab \in {Circle_inter_Line(c, l.val)}})

-----------------------------------------------------------------------------
(* src/src/calc/trig/centers.rs.  A Triangle is <<A, B, C>>. *)

from_barycentric(T, w) ==
    LET s == FAdd(FAdd(w[1], w[2]), w[3])
    IN  IF FEq(s, F(0)) THEN Err("ZeroCoefficient")
        ELSE Ok(Point_div(Point_add(Point_add(Point_mul(T[1], w[1]),
                                              Point_mul(T[2], w[2])),
                                    Point_mul(T[3], w[3])), s))

symmedian(T) ==
    LET a2 == Point_distance_sq(T[3], T[2])
        b2 == Point_distance_sq(T[2], T[1])
        c2 == Point_distance_sq(T[1], T[3])
    IN  from_barycentric(T, <<a2, b2, c2>>)

\* excenter meeting the two first bisectors: the incenter.
excenter_both_first(T) ==
    LET p == angle_bisect_3p(T[2], T[1], T[3])
        q == angle_bisect_3p(T[1], T[2], T[3])
    IN  IF ~p.ok THEN p
        ELSE IF ~q.ok THEN q
        ELSE Line_inter_Line(p.val[1], q.val[1])

\* Each ? returns the error of angle_bisect_3p.
excenter(T) ==
    LET p == angle_bisect_3p(T[2], T[1], T[3])
        q == angle_bisect_3p(T[1], T[2], T[3])
    IN  IF ~p.ok THEN p
        ELSE IF ~q.ok THEN q
        ELSE Line_inter_Line(p.val[1], q.val[2])

-----------------------------------------------------------------------------
(* The state: the arguments of a call, the call made, and what it returned. *)

VARIABLES
    op,      \* the last call made, "init" before any
    self,    \* the receiver: a Point, a Line or a Circle
    obj,     \* the other operand of inter, inter_common, == and reflect_in
    common,  \* the common point handed to inter_common
    A, B, C, \* the points of Circle::from_3p and of a Triangle; A, a point
             \* of self
    O,       \* the center of a rotation, a scaling or an inversion
    angle,   \* the angle of a rotation, in quarter turns
    ratio,   \* the ratio of a scaling, the power of an inversion
    res,     \* the value returned by the first call
    res2     \* the value returned by the call made on that value

vars == <<op, self, obj, common, A, B, C, O, angle, ratio, res, res2>>

args == <<self, obj, A, B, C, O, angle, ratio>>

\* The value of a variable the calls of a specification do not use.
None == [none |-> TRUE]

IsPoint(s) == "x" \in DOMAIN s

IsLine(s) == "a" \in DOMAIN s

IsCircle(s) == "r" \in DOMAIN s

\* src/src/calc/constants.rs: ORIGIN.
ORIGIN == Point(F(0), F(0))

(* The argument sets.  Every Line has a, b not both zero and every Circle   *)
(* has r > 0, as Line::from_coeff and Circle::from_center_radius accept.    *)

Coeffs == (-MaxCoeff) .. MaxCoeff

Coords == (-MaxCoord) .. MaxCoord

Points == {Point(F(x), F(y)) : x \in Coords, y \in Coords}

Lines ==
    {Line(F(a), F(b), F(c)) :
        a \in Coeffs, b \in Coeffs \ {0}, c \in Coeffs}
    \cup {Line(F(a), F(0), F(c)) : a \in Coeffs \ {0}, c \in Coeffs}

\* The circles of the test intersect of src/tests/basic.rs.
TestCircles ==
    {Circle(Point(F(0), F(0)), F(3)), Circle(Point(F(5), F(0)), F(4))}

Circles ==
    {Circle(P, F(r)) : P \in Points, r \in 1 .. MaxRadius} \cup TestCircles

QuarterTurns == 0 .. 3

-----------------------------------------------------------------------------
(* SpecPair: the calls on a pair of Lines and Circles (traits Intersect and *)
(* PartialEq of src/src/calc/basic.rs).                                     *)

InitPair ==
    /\ op = "init"
    /\ self \in Lines \cup Circles
    /\ obj \in Lines \cup Circles
    /\ common = None /\ A = None /\ B = None /\ C = None
    /\ O = None /\ angle = None /\ ratio = None /\ res = None /\ res2 = None

\* self.inter(obj), stored in res.
Inter(r) ==
    /\ op = "init"
    /\ op' = "inter"
    /\ res' = r
    /\ UNCHANGED <<args, common, res2>>

LineInterLine ==
    IsLine(self) /\ IsLine(obj) /\ Inter(Line_inter_Line(self, obj))

LineInterCircle ==
    IsLine(self) /\ IsCircle(obj) /\ Inter(Line_inter_Circle(self, obj))

CircleInterLine ==
    IsCircle(self) /\ IsLine(obj) /\ Inter(Circle_inter_Line(self, obj))

CircleInterCircle ==
    IsCircle(self) /\ IsCircle(obj) /\ Inter(Circle_inter_Circle(self, obj))

\* The points a caller of inter_common has at hand: those inter returned,
\* and ORIGIN (a point that need not be on either object: inter_common
\* validates nothing).
CommonPoints ==
    (IF ~res.ok THEN {}
     ELSE IF IsLine(self) /\ IsLine(obj) THEN {res.val}
     ELSE {res.val[1], res.val[2]}) \cup {ORIGIN}

LineInterCommonLine ==
    /\ op = "inter" /\ IsLine(self) /\ IsLine(obj)
    /\ \E P \in CommonPoints :
        /\ common' = P
        /\ res2' = Line_inter_common_Line(self, obj, P)
    /\ op' = "inter_common"
    /\ UNCHANGED <<args, res>>

LineInterCommonCircle ==
    /\ op = "inter" /\ IsLine(self) /\ IsCircle(obj)
    /\ \E P \in CommonPoints :
        /\ common' = P
        /\ res2' = Line_inter_common_Circle(self, obj, P)
    /\ op' = "inter_common"
    /\ UNCHANGED <<args, res>>

CircleInterCommonLine ==
    /\ op = "inter" /\ IsCircle(self) /\ IsLine(obj)
    /\ \E P \in CommonPoints :
        /\ common' = P
        /\ res2' = Circle_inter_common_Line(self, obj, P)
    /\ op' = "inter_common"
    /\ UNCHANGED <<args, res>>

CircleInterCommonCircle ==
    /\ op = "inter" /\ IsCircle(self) /\ IsCircle(obj)
    /\ \E P \in CommonPoints :
        /\ common' = P
        /\ res2' = Circle_inter_common_Circle(self, obj, P)
    /\ op' = "inter_common"
    /\ UNCHANGED <<args, res>>

\* self == obj on two Lines.
LineEq ==
    /\ op = "init" /\ IsLine(self) /\ IsLine(obj)
    /\ op' = "eq"
    /\ res' = Line_eq(self, obj)
    /\ UNCHANGED <<args, common, res2>>

NextPair ==
    \/ LineInterLine
    \/ LineInterCircle
    \/ CircleInterLine
    \/ CircleInterCircle
    \/ LineInterCommonLine
    \/ LineInterCommonCircle
    \/ CircleInterCommonLine
    \/ CircleInterCommonCircle
    \/ LineEq

SpecPair == InitPair /\ [][NextPair]_vars

-----------------------------------------------------------------------------
(* Geometry the properties are stated in, in exact arithmetic. *)

\* a*x + b*y + c, the line's equation at P.
LineAt(l, P) == FAdd(FAdd(FMul(l.a, P.x), FMul(l.b, P.y)), l.c)

OnLine(l, P) == FEq(LineAt(l, P), F(0))

SqDist(P, Q) ==
    FAdd(FMul(FSub(P.x, Q.x), FSub(P.x, Q.x)),
         FMul(FSub(P.y, Q.y), FSub(P.y, Q.y)))

OnCircle(c, P) == FEq(SqDist(c.O, P), FMul(c.r, c.r))

\* -1, 0, 1: the center of c is nearer to l than r, at r, farther than r.
CenterToLine(l, c) ==
    Sign(FSub(FMul(LineAt(l, c.O), LineAt(l, c.O)),
              FMul(FMul(c.r, c.r), FAdd(FMul(l.a, l.a), FMul(l.b, l.b)))))

\* Two circles with distinct centers that meet.
Meet(c, d) ==
    /\ c.O # d.O
    /\ FLe(FMul(FSub(c.r, d.r), FSub(c.r, d.r)), SqDist(c.O, d.O))
    /\ FLe(SqDist(c.O, d.O), FMul(FAdd(c.r, d.r), FAdd(c.r, d.r)))

\* S and T are mirror images in the line through P and Q (P # Q): ST is
\* perpendicular to PQ and the midpoint of ST is on PQ.
Mirror(S, T, P, Q) ==
    /\ FEq(FAdd(FMul(FSub(S.x, T.x), FSub(Q.x, P.x)),
                FMul(FSub(S.y, T.y), FSub(Q.y, P.y))), F(0))
    /\ FEq(FSub(FMul(FSub(FAdd(S.x, T.x), FMul(F(2), P.x)), FSub(Q.y, P.y)),
                FMul(FSub(FAdd(S.y, T.y), FMul(F(2), P.y)), FSub(Q.x, P.x))),
           F(0))

\* Two coefficient triples denote the same line: they are proportional.
SameLine(l, k) ==
    /\ FEq(FMul(l.a, k.b), FMul(k.a, l.b))
    /\ FEq(FMul(l.a, k.c), FMul(k.a, l.c))
    /\ FEq(FMul(l.b, k.c), FMul(k.b, l.c))

-----------------------------------------------------------------------------
(* Properties of SpecPair. *)

\* C1: l.inter(c) is Err(NoIntersection) exactly when the center of c is
\* farther from l than r; otherwise it is Ok((P, Q)) with P and Q on l and
\* on c, and P = Q when l is tangent to c.
C1_LineInterCircle ==
    (op = "inter" /\ IsLine(self) /\ IsCircle(obj)) =>
        IF CenterToLine(self, obj) > 0
        THEN res = Err("NoIntersection")
        ELSE /\ res.ok
             /\ \A i \in 1 .. 2 :
                    OnLine(self, res.val[i]) /\ OnCircle(obj, res.val[i])
             /\ CenterToLine(self, obj) = 0 => res.val[1] = res.val[2]

\* C2: two circles with distinct centers that meet: c.inter(d) is Ok((S, T))
\* with S and T on both circles and mirror images in the line of centers.
C2_CircleInterCircle ==
    (op = "inter" /\ IsCircle(self) /\ IsCircle(obj) /\ Meet(self, obj)) =>
        /\ res.ok
        /\ \A i \in 1 .. 2 :
               OnCircle(self, res.val[i]) /\ OnCircle(obj, res.val[i])
        /\ Mirror(res.val[1], res.val[2], self.O, obj.O)

\* C3: l.inter(k) is Err(NoIntersection) when l.a*k.b equals k.a*l.b within
\* epsilon (parallel or coincident lines); otherwise it is Ok(P) and P
\* satisfies the equations of both lines.
C3_LineInterLine ==
    (op = "inter" /\ IsLine(self) /\ IsLine(obj)) =>
        IF aprx_eq(FMul(self.a, obj.b), FMul(obj.a, self.b))
        THEN res = Err("NoIntersection")
        ELSE res.ok /\ OnLine(self, res.val) /\ OnLine(obj, res.val)

\* Two lines that cross at a point with a non-integer coordinate.
C3_Witness ==
    /\ op = "inter" /\ IsLine(self) /\ IsLine(obj)
    /\ res.ok
    /\ res.val.x[3] > 1

\* P is on s, a Line or a Circle.
On(s, P) == IF IsLine(s) THEN OnLine(s, P) ELSE OnCircle(s, P)

\* Two circles about one center: they have no radical axis.
SameCenter == IsCircle(self) /\ IsCircle(obj) /\ self.O = obj.O

\* C4: when inter returned Ok((P, Q)), inter_common with either of the two
\* as the common point returns Ok((the other one, the common point)); on
\* two lines, with inter's point P as the common point, it returns Ok(P).
\* And whenever the common point is on both objects, so is the other point
\* inter_common returns, with the common point last.
C4_InterCommon ==
    (op = "inter_common" /\ ~SameCenter) =>
        /\ res.ok =>
             IF IsLine(self) /\ IsLine(obj)
             THEN common = res.val => res2 = Ok(res.val)
             ELSE \A i \in 1 .. 2 :
                      common = res.val[i] =>
                          res2 = Ok(<<res.val[3 - i], common>>)
        /\ (~(IsLine(self) /\ IsLine(obj))
                /\ On(self, common) /\ On(obj, common)) =>
             /\ res2.ok
             /\ On(self, res2.val[1]) /\ On(obj, res2.val[1])
             /\ res2.val[2] = common

\* A line crossing a circle at two points, the first given as the common one.
C4_Witness ==
    /\ op = "inter_common" /\ IsLine(self) /\ IsCircle(obj)
    /\ res.ok
    /\ res.val[1] # res.val[2]
    /\ common = res.val[1]
    /\ res2 = Ok(<<res.val[2], res.val[1]>>)

\* C9: l == k is true exactly when l and k denote the same set of points,
\* that is when (l.a, l.b, l.c) and (k.a, k.b, k.c) are scalar multiples.
C9_LineEq ==
    op = "eq" => (res <=> SameLine(self, obj))

\* C10: for two circles with the same center, c.inter(d) and
\* c.inter_common(d, P) return Err(NoIntersection).
C10_SameCenter ==
    (IsCircle(self) /\ IsCircle(obj) /\ self.O = obj.O) =>
        /\ op = "inter" => res = Err("NoIntersection")
        /\ op = "inter_common" => res2 = Err("NoIntersection")

-----------------------------------------------------------------------------
(* SpecCircle3: Circle::from_3p, and Circle::from_center_point on the       *)
(* center it found.                                                         *)

InitCircle3 ==
    /\ op = "init"
    /\ A \in Points /\ B \in Points /\ C \in Points
    /\ self = None /\ obj = None /\ common = None
    /\ O = None /\ angle = None /\ ratio = None /\ res = None /\ res2 = None

CircleFrom3p ==
    /\ op = "init"
    /\ op' = "from_3p"
    /\ res' = Circle_from_3p(A, B, C)
    /\ UNCHANGED <<args, common, res2>>

CircleFromCenterPoint ==
    /\ op = "from_3p" /\ res.ok
    /\ op' = "from_center_point"
    /\ res2' = Circle_from_center_point(res.val.O, A)
    /\ UNCHANGED <<args, common, res>>

NextCircle3 == CircleFrom3p \/ CircleFromCenterPoint

SpecCircle3 == InitCircle3 /\ [][NextCircle3]_vars

-----------------------------------------------------------------------------
(* Properties of SpecCircle3. *)

\* A, B and C are on one line: (B - A) x (C - A) = 0.
Collinear(P, Q, R) ==
    FEq(FMul(FSub(Q.x, P.x), FSub(R.y, P.y)),
        FMul(FSub(Q.y, P.y), FSub(R.x, P.x)))

\* C5: Circle::from_3p(A, B, C) is Err(OverlappingPoint) whenever two of
\* the three points coincide: A = B, B = C or A = C.
C5_Overlapping ==
    (op = "from_3p" /\ (Point_eq(A, B) \/ Point_eq(B, C) \/ Point_eq(A, C)))
        => res = Err("OverlappingPoint")

\* The triple of the test objects_def of src/tests/basic.rs.
TestTriple ==
    /\ A = Point(F(0), F(0))
    /\ B = Point(F(0), F(1))
    /\ C = Point(F(1), F(1))

\* C6: for pairwise distinct A, B, C, Circle::from_3p is Err(NoIntersection)
\* when they are collinear; otherwise it is Ok(circle) with the center at
\* one distance from A, B and C, the radius that distance, and the circle
\* equal to Circle::from_center_point(center, A).  (0,0), (0,1), (1,1) give
\* the center (1/2, 1/2) and the radius sqrt(1/2).
C6_From3p ==
    (/\ op \in {"from_3p", "from_center_point"}
     /\ ~Point_eq(A, B) /\ ~Point_eq(B, C) /\ ~Point_eq(A, C)) =>
        IF Collinear(A, B, C)
        THEN res = Err("NoIntersection")
        ELSE /\ res.ok
             /\ SqDist(res.val.O, A) = SqDist(res.val.O, B)
             /\ SqDist(res.val.O, A) = SqDist(res.val.O, C)
             /\ Sign(res.val.r) > 0
             /\ FMul(res.val.r, res.val.r) = SqDist(res.val.O, A)
             /\ TestTriple =>
                    /\ res.val.O = Point(Frac(1, 2), Frac(1, 2))
                    /\ FMul(res.val.r, res.val.r) = Frac(1, 2)
             /\ op = "from_center_point" =>
                    res2.ok /\ Circle_eq(res.val, res2.val)

\* The circle through the three points of the test, compared with
\* from_center_point.
C6_Witness ==
    /\ op = "from_center_point"
    /\ TestTriple
    /\ res.ok /\ res2.ok
    /\ res.val.O = Point(Frac(1, 2), Frac(1, 2))

-----------------------------------------------------------------------------
(* SpecTransform: rotate, then rotate the image back by the opposite angle; *)
(* reflect a Point in a Line, then reflect the image again.                 *)

InitTransform ==
    /\ op = "init"
    /\ \/ /\ self \in Points \cup Lines \cup Circles
          /\ O \in Points
          /\ angle \in QuarterTurns
          /\ obj = None
       \/ /\ self \in Points
          /\ obj \in Lines
          /\ O = None
          /\ angle = None
    /\ common = None /\ A = None /\ B = None /\ C = None
    /\ ratio = None /\ res = None /\ res2 = None

\* self.rotate(O, angle), stored in res.
Rotate(r) ==
    /\ op = "init" /\ IsPoint(O)
    /\ op' = "rotate"
    /\ res' = r
    /\ UNCHANGED <<args, common, res2>>

\* res.rotate(O, -angle), stored in res2.
RotateBack(r) ==
    /\ op = "rotate"
    /\ op' = "rotate_back"
    /\ res2' = r
    /\ UNCHANGED <<args, common, res>>

PointRotate == IsPoint(self) /\ Rotate(Point_rotate(self, O, angle))

LineRotate == IsLine(self) /\ Rotate(Line_rotate(self, O, angle))

CircleRotate == IsCircle(self) /\ Rotate(Circle_rotate(self, O, angle))

PointRotateBack == IsPoint(self) /\ RotateBack(Point_rotate(res, O, -angle))

LineRotateBack == IsLine(self) /\ RotateBack(Line_rotate(res, O, -angle))

CircleRotateBack ==
    IsCircle(self) /\ RotateBack(Circle_rotate(res, O, -angle))

PointReflectInLine ==
    /\ op = "init" /\ IsPoint(self) /\ IsLine(obj)
    /\ op' = "reflect_in"
    /\ res' = Point_reflect_in_Line(self, obj)
    /\ UNCHANGED <<args, common, res2>>

PointReflectBack ==
    /\ op = "reflect_in"
    /\ op' = "reflect_back"
    /\ res2' = Point_reflect_in_Line(res, obj)
    /\ UNCHANGED <<args, common, res>>

NextTransform ==
    \/ PointRotate
    \/ LineRotate
    \/ CircleRotate
    \/ PointRotateBack
    \/ LineRotateBack
    \/ CircleRotateBack
    \/ PointReflectInLine
    \/ PointReflectBack

SpecTransform == InitTransform /\ [][NextTransform]_vars

-----------------------------------------------------------------------------
(* Properties of SpecTransform. *)

\* C7: X.rotate(O, t).rotate(O, -t) equals X for a Point and a Circle, and
\* denotes the same line as X for a Line, for every center O and angle t.
C7_RotateBack ==
    op = "rotate_back" =>
        IF IsLine(self) THEN SameLine(res2, self) ELSE res2 = self

\* C8: for a Point P and a Line l, the midpoint of P and P.reflect_in(l) is
\* on l, P.reflect_in(l) = P when P is on l, and reflecting twice gives P.
C8_Reflect ==
    (op \in {"reflect_in", "reflect_back"}) =>
        /\ OnLine(obj, Point_div(Point_add(self, res), F(2)))
        /\ OnLine(obj, self) => res = self
        /\ op = "reflect_back" => res2 = self

\* A point off a slanted mirror, reflected (both coordinates change) and
\* reflected back.
C8_Witness ==
    /\ op = "reflect_back"
    /\ ~OnLine(obj, self)
    /\ res.x # self.x /\ res.y # self.y
    /\ res2 = self


-----------------------------------------------------------------------------
(* SpecLines: two lines and a point A on the first; the distance between
   the lines, and the reflection of the first line and of A in the second. *)

InitLines ==
    /\ op = "init"
    /\ self \in Lines
    /\ obj \in Lines
    /\ A \in {P \in Points : FEq(Point_distance_sq_Line(P, self), F(0))}
    /\ common = None /\ B = None /\ C = None
    /\ O = None /\ angle = None /\ ratio = None /\ res = None /\ res2 = None

LineDistanceSqLine ==
    /\ op = "init"
    /\ op' = "distance_sq"
    /\ res' = Line_distance_sq_Line(self, obj)
    /\ UNCHANGED <<args, common, res2>>

LineReflectInLine ==
    /\ op = "init"
    /\ op' = "reflect_in"
    /\ res' = Line_reflect_in_Line(self, obj)
    /\ UNCHANGED <<args, common, res2>>

PointOnLineReflectInLine ==
    /\ op = "reflect_in"
    /\ op' = "reflect_point"
    /\ res2' = Point_reflect_in_Line(A, obj)
    /\ UNCHANGED <<args, common, res>>

NextLines ==
    \/ LineDistanceSqLine
    \/ LineReflectInLine
    \/ PointOnLineReflectInLine

SpecLines == InitLines /\ [][NextLines]_vars

-----------------------------------------------------------------------------
(* Properties of SpecLines. *)

\* Two lines of one direction, in exact arithmetic.
Parallel(l, k) == FEq(FMul(l.a, k.b), FMul(k.a, l.b))

\* The foot of the perpendicular from the origin to l, a point of l.
Foot(l) ==
    LET n == FAdd(FMul(l.a, l.a), FMul(l.b, l.b))
    IN  Point(FDiv(FNeg(FMul(l.a, l.c)), n), FDiv(FNeg(FMul(l.b, l.c)), n))

\* The square of the distance from P to l.
SqDistToLine(P, l) ==
    FDiv(FMul(LineAt(l, P), LineAt(l, P)),
         FAdd(FMul(l.a, l.a), FMul(l.b, l.b)))

\* C11: l.distance_sq(k) is 0 when l and k are not parallel and, when they
\* are, the square of the perpendicular distance between them, whatever
\* the scaling of the two coefficient triples.
C11_LineDistance ==
    op = "distance_sq" =>
        res = IF Parallel(self, obj) THEN SqDistToLine(Foot(obj), self)
              ELSE F(0)

\* C16: for every point P on k, P.reflect_in(l) is on k.reflect_in(l), in
\* the parallel branch whatever the scaling and in the non-parallel branch.
C16_ReflectLine ==
    op = "reflect_point" => IsLine(res) /\ OnLine(res, res2)


-----------------------------------------------------------------------------
(* SpecTriangle: the centers of the triangle (A, B, C). *)

\* The radical of the length of PQ: |PQ| = s * sqrt(Radical(P, Q)).
Radical(P, Q) == FSqrt(Point_distance_sq(P, Q))[4]

\* A triangle that is not degenerate and whose side lengths are in one
\* field Q(sqrt(k)), where the bisectors of its angles have their
\* coefficients.
IsTriangle(P, Q, R) ==
    /\ FMul(FSub(Q.x, P.x), FSub(R.y, P.y))
           # FMul(FSub(Q.y, P.y), FSub(R.x, P.x))
    /\ Cardinality({Radical(P, Q), Radical(Q, R), Radical(R, P)} \ {1}) <= 1

InitTriangle ==
    /\ op = "init"
    /\ A \in Points /\ B \in Points /\ C \in Points
    /\ IsTriangle(A, B, C)
    /\ self = None /\ obj = None /\ common = None
    /\ O = None /\ angle = None /\ ratio = None /\ res = None /\ res2 = None

Symmedian ==
    /\ op = "init"
    /\ op' = "symmedian"
    /\ res' = symmedian(<<A, B, C>>)
    /\ UNCHANGED <<args, common, res2>>

Excenter ==
    /\ op = "init"
    /\ op' = "excenter"
    /\ res' = excenter(<<A, B, C>>)
    /\ UNCHANGED <<args, common, res2>>

NextTriangle ==
    \/ Symmedian
    \/ Excenter

SpecTriangle == InitTriangle /\ [][NextTriangle]_vars

-----------------------------------------------------------------------------
(* Properties of SpecTriangle. *)

\* The line through P and Q (P # Q).
Through(P, Q) ==
    Line(FSub(P.y, Q.y), FSub(Q.x, P.x),
         FSub(FMul(P.x, Q.y), FMul(P.y, Q.x)))

\* -1, 1: P and Q are on opposite sides, on one side of l; 0: one is on l.
Sides(l, P, Q) == Sign(LineAt(l, P)) * Sign(LineAt(l, Q))

\* C12: symmedian((A, B, C)) is the point of barycentric coordinates
\* (|BC|^2, |CA|^2, |AB|^2), on every triangle that is not degenerate.
C12_Symmedian ==
    op = "symmedian" =>
        res = from_barycentric(<<A, B, C>>,
                               <<SqDist(B, C), SqDist(C, A), SqDist(A, B)>>)

\* C14: excenter((A, B, C)) is Ok(E) with E the excenter in the angle BAC:
\* at one distance from the lines AB, BC and CA, inside the angle BAC, so on
\* its interior bisector, and on the other side of BC from A.  The first
\* line of angle_bisect_3p(B, A, C) is the interior bisector: it separates
\* B from C.
C14_Excenter ==
    op = "excenter" =>
        /\ res.ok
        /\ LET E == res.val
               AB == Through(A, B)
               BC == Through(B, C)
               CA == Through(C, A)
               d == SqDistToLine(E, AB)
               bis == angle_bisect_3p(B, A, C)
           IN  /\ d = SqDistToLine(E, BC)
               /\ d = SqDistToLine(E, CA)
               /\ Sides(AB, E, C) = 1
               /\ Sides(CA, E, B) = 1
               /\ Sides(BC, E, A) = -1
               /\ bis.ok
               /\ Sides(bis.val[1], B, C) = -1
               /\ OnLine(bis.val[1], E)

\* An excenter with irrational coordinates.
C14_Witness ==
    /\ op = "excenter"
    /\ res.ok
    /\ res.val.x[2] # 0
    /\ Sides(Through(B, C), res.val, A) = -1


-----------------------------------------------------------------------------
(* SpecHomothety: the homothetic centers of two circles, and the first
   circle scaled about each of them. *)

InitHomothety ==
    /\ op = "init"
    /\ self \in Circles
    /\ obj \in Circles
    /\ common = None /\ A = None /\ B = None /\ C = None
    /\ O = None /\ angle = None /\ ratio = None /\ res = None /\ res2 = None

HomothetyCenter ==
    /\ op = "init"
    /\ op' = "homothety_center"
    /\ res' = homothety_center(self, obj)
    /\ UNCHANGED <<args, common, res2>>

\* c.scale(E, d.r / c.r), E the first point returned.
ScaleAboutFirst ==
    /\ op = "homothety_center" /\ res.ok
    /\ op' = "scale_first"
    /\ res2' = Circle_scale(self, res.val[1], FDiv(obj.r, self.r))
    /\ UNCHANGED <<args, common, res>>

\* c.scale(I, -d.r / c.r), I the second point returned.
ScaleAboutSecond ==
    /\ op = "homothety_center" /\ res.ok
    /\ op' = "scale_second"
    /\ res2' = Circle_scale(self, res.val[2], FNeg(FDiv(obj.r, self.r)))
    /\ UNCHANGED <<args, common, res>>

NextHomothety ==
    \/ HomothetyCenter
    \/ ScaleAboutFirst
    \/ ScaleAboutSecond

SpecHomothety == InitHomothety /\ [][NextHomothety]_vars

\* C13: homothety_center(c, d) is Err(Infinity) exactly when c.r = d.r;
\* otherwise it is Ok((E, I)) with E the external center, c.scale(E, d.r/c.r)
\* being d, and I the internal center, c.scale(I, -d.r/c.r) having the
\* center of d and a radius of magnitude d.r.
C13_HomothetyCenter ==
    /\ op = "homothety_center" =>
           IF self.r = obj.r THEN res = Err("Infinity") ELSE res.ok
    /\ op = "scale_first" => res2 = obj
    /\ op = "scale_second" => res2.O = obj.O /\ FAbs(res2.r) = obj.r


-----------------------------------------------------------------------------
(* SpecInvert: a circle and a point A on it, inverted in the circle of
   center O and power ratio. *)

Powers == Coeffs

\* The four points of c on the parallels to the axes through its center.
AxisPoints(c) ==
    {Point(FAdd(c.O.x, c.r), c.O.y), Point(FSub(c.O.x, c.r), c.O.y),
     Point(c.O.x, FAdd(c.O.y, c.r)), Point(c.O.x, FSub(c.O.y, c.r))}

InitInvert ==
    /\ op = "init"
    /\ self \in Circles \ TestCircles
    /\ O \in Points
    /\ ratio \in {F(p) : p \in Powers}
    /\ A \in AxisPoints(self)
    /\ obj = None /\ common = None /\ B = None /\ C = None
    /\ angle = None /\ res = None /\ res2 = None

CircleInvertIn ==
    /\ op = "init"
    /\ op' = "invert_in"
    /\ res' = Circle_invert_in(self, O, ratio)
    /\ UNCHANGED <<args, common, res2>>

\* The program goes on only when the first call returned.
PointInvertIn ==
    /\ op = "invert_in" /\ ~IsPanic(res)
    /\ op' = "invert_point"
    /\ res2' = Point_invert_in(A, O, ratio)
    /\ UNCHANGED <<args, common, res>>

NextInvert ==
    \/ CircleInvertIn
    \/ PointInvertIn

SpecInvert == InitInvert /\ [][NextInvert]_vars

\* x + y over the least common denominator, for finite x and y.
Sum(x, y) ==
    LET g == Gcd(x[3], y[3])
    IN  Norm(x[1] * (y[3] \div g) + y[1] * (x[3] \div g),
             x[2] * (y[3] \div g) + y[2] * (x[3] \div g),
             x[3] * (y[3] \div g), Rad(x, y))

\* P is on c, for finite coordinates and radius.
OnCircleOf(c, P) ==
    Sum(FMul(FSub(P.x, c.O.x), FSub(P.x, c.O.x)),
        FMul(FSub(P.y, c.O.y), FSub(P.y, c.O.y))) = FMul(c.r, c.r)

\* C15: for O not on c and p # 0, c.invert_in(O, p) returns without
\* aborting, the value is LineInverted::Circle(c'), and P.invert_in(O, p)
\* is on c' for every P on c; O = c.O and O level with c.O included.
C15_InvertCircle ==
    (/\ op \in {"invert_in", "invert_point"}
     /\ ~OnCircle(self, O)
     /\ ratio # F(0)) =>
        /\ ~IsPanic(res)
        /\ res.variant = "Circle"
        /\ op = "invert_point" => res2.ok /\ OnCircleOf(res.val, res2.val)


-----------------------------------------------------------------------------
(* SpecInvariant: the calls that return a Line or a Circle, made on two
   Lines, on two Circles, or on one object with a center and a ratio. *)

Ratios == Coeffs

\* Two lines whose normals have their lengths in one field Q(sqrt(k)).
InOneField(l, k) ==
    Cardinality({FSqrt(FAdd(FMul(l.a, l.a), FMul(l.b, l.b)))[4],
                 FSqrt(FAdd(FMul(k.a, k.a), FMul(k.b, k.b)))[4]} \ {1}) <= 1

InitInvariant ==
    /\ op = "init"
    /\ \/ /\ self \in Lines /\ obj \in Lines /\ InOneField(self, obj)
          /\ O = None /\ ratio = None
       \/ /\ self \in Circles /\ obj \in Circles
          /\ O = None /\ ratio = None
       \/ /\ self \in Lines \cup Circles /\ obj = None
          /\ O \in Points /\ ratio \in {F(r) : r \in Ratios}
    /\ common = None /\ A = None /\ B = None /\ C = None
    /\ angle = None /\ res = None /\ res2 = None

\* The two lines returned are res and res2.
AngleBisect ==
    /\ op = "init" /\ IsLine(self) /\ IsLine(obj)
    /\ op' = "angle_bisect"
    /\ res' = angle_bisect(self, obj)[1]
    /\ res2' = angle_bisect(self, obj)[2]
    /\ UNCHANGED <<args, common>>

LineReflect ==
    /\ op = "init" /\ IsLine(self) /\ IsLine(obj)
    /\ op' = "reflect_in"
    /\ res' = Line_reflect_in_Line(self, obj)
    /\ UNCHANGED <<args, common, res2>>

RadicalAxis ==
    /\ op = "init" /\ IsCircle(self) /\ IsCircle(obj)
    /\ op' = "radical_axis"
    /\ res' = radical_axis(self, obj)
    /\ UNCHANGED <<args, common, res2>>

LineScale ==
    /\ op = "init" /\ IsLine(self) /\ IsPoint(O)
    /\ op' = "scale"
    /\ res' = Line_scale(self, O, ratio)
    /\ UNCHANGED <<args, common, res2>>

CircleScale ==
    /\ op = "init" /\ IsCircle(self) /\ IsPoint(O)
    /\ op' = "scale"
    /\ res' = Circle_scale(self, O, ratio)
    /\ UNCHANGED <<args, common, res2>>

NextInvariant ==
    \/ AngleBisect
    \/ LineReflect
    \/ RadicalAxis
    \/ LineScale
    \/ CircleScale

SpecInvariant == InitInvariant /\ [][NextInvariant]_vars

\* A Line of a and b not both zero, a Circle of r > 0; any other value is
\* under no constraint.
Valid(v) ==
    /\ IsLine(v) => ~(FEq(v.a, F(0)) /\ FEq(v.b, F(0)))
    /\ IsCircle(v) => FLt(F(0), v.r)

\* C17: on valid Lines and Circles, every Line returned has a and b not
\* both zero and every Circle returned has r > 0: the lines of angle_bisect,
\* parallel arguments included, of reflect_in and of radical_axis, and the
\* Line and the Circle of scale, ratios <= 0 included.
C17_TypeInvariant ==
    op # "init" => Valid(res) /\ Valid(res2)

=============================================================================
